---- MODULE Spec2Model ----
(***************************************************************************)
(* Model of the Go-Chatsync hub (backend/main.go): the registry of live    *)
(* clients, their bounded outbound channels, the read and write pumps, the *)
(* group directory and the handlers the read pump dispatches to.           *)
(*                                                                         *)
(* Strings are sequences of one-character strings, so that strings.Split   *)
(* and string concatenation are computed as the code computes them.        *)
(*                                                                         *)
(* An action is one whole handler (the /ws handler, one frame dispatched   *)
(* by readPump, readPump's exit) or one iteration of writePump; the        *)
(* goroutines of different connections interleave between handlers.        *)
(***************************************************************************)
EXTENDS Integers, Sequences, FiniteSets, TLC

VARIABLES
    clients,     \* clients map: username -> session id
    nextSession, \* number of Client values allocated so far
    username,    \* Client.Username of each allocated session
    send,        \* Client.send: the frames buffered in the channel
    closed,      \* Client.send has been closed
    conn,        \* Client.conn: "open" or "closed"
    rp,          \* readPump goroutine of the session: "idle", "run", "done"
    wp,          \* writePump goroutine of the session: "idle", "run", "done"
    pc,          \* where the readPump of the session is inside a handler, and on which message
    groups,      \* groups map: group name -> Group
    privateMessages, \* conversation key -> sequence of Message
    groupMessages,   \* group name -> sequence of Message
    lastSeenTimestamps, \* username -> (chatID -> timestamp)
    now,         \* the wall clock, in seconds: what time.Now() formats to
    panicked,    \* the process died of a runtime panic
    ops,         \* number of handler invocations so far (bounded)
    last         \* the last operation that completed, with its arguments

vars == <<clients, nextSession, username, send, closed, conn, rp, wp, pc, groups,
          privateMessages, groupMessages, lastSeenTimestamps, now,
          panicked, ops, last>>

----------------------------------------------------------------------------
(* Bounds of the model *)

MaxSessions == 3   \* Client values there are
MaxConnections == 2   \* connection requests in one behaviour of Spec and SpecChat
QueueCap == 3      \* capacity of Client.send; at least the 3 frames of a registration
MaxRequests == 1   \* request_history frames handled in one behaviour
MaxOps == 2        \* group requests handled in one behaviour
MaxMembers == 3    \* add_group_member is not tried on a longer member list
MaxChatOps == 3    \* message and history requests handled in one behaviour of SpecChat
MaxUnreadOps == 2  \* message and last-seen requests handled in one behaviour of SpecUnread
MaxHandleLen == 2  \* length of the handles a conversation key is computed for
MaxGroupChatOps == 3  \* group messages and history requests handled in one behaviour of SpecGroupChat

MaxFrames == 2        \* wire messages read in one behaviour of SpecFrames

MaxLockOps == 2       \* handlers run step by step in one behaviour of SpecLocks

MaxHandleOps == 2     \* frames handled in one behaviour of SpecHandles

MaxEvictOps == 1      \* private messages handled step by step in one behaviour of SpecEvict

MaxTime == 1       \* the clock stops advancing at this second

(* Strings *)

Str(s) == <<s>>
EmptyStr == <<>>
Users == {Str("a"), Str("b")}
GroupNames == {Str("g")}

(* the Content of the create_group frames tried: "", "a", "b", "a,b", "b,b", "," *)
MemberLists == {EmptyStr, Str("a"), Str("b"), <<"a", ",", "b">>, <<"b", ",", "b">>, Str(",")}
(* the Content of the add_group_member and remove_group_member frames tried *)
MemberNames == Users \cup {EmptyStr}

(* the To of the private_message frames tried: "c" never connects *)
Recipients == Users \cup {Str("c")}
(* the Content of the message frames tried *)
MsgContents == {Str("x"), Str("y")}

Sessions == 1..MaxSessions
NoSession == 0

----------------------------------------------------------------------------
(* strings.Split(s, ","), used by createGroup *)

CommaAt(s) == {i \in 1..Len(s) : s[i] = ","}

Min(S) == CHOOSE x \in S : \A y \in S : x <= y

RECURSIVE Split(_)
Split(s) ==
    IF CommaAt(s) = {} THEN <<s>>
    ELSE LET i == Min(CommaAt(s))
         IN  <<SubSeq(s, 1, i - 1)>> \o Split(SubSeq(s, i + 1, Len(s)))

(* contains(slice, str) *)
contains(slice, str) == \E i \in 1..Len(slice) : slice[i] = str

(* Go maps: lookup, insert, delete *)
Has(m, k) == k \in DOMAIN m
Put(m, k, v) == [x \in DOMAIN m \cup {k} |-> IF x = k THEN v ELSE m[x]]
Delete(m, k) == [x \in DOMAIN m \ {k} |-> m[x]]
EmptyMap == [x \in {} |-> x]

(* Byte order of the characters used, for Go's string comparison *)
Ord(c) == CASE c = "," -> 44
            [] c = ":" -> 58
            [] c = "a" -> 97
            [] c = "b" -> 98
            [] c = "c" -> 99
            [] c = "g" -> 103
            [] OTHER -> 127

RECURSIVE LessStr(_, _)
LessStr(x, y) ==
    IF Len(y) = 0 THEN FALSE
    ELSE IF Len(x) = 0 THEN TRUE
    ELSE IF Ord(x[1]) # Ord(y[1]) THEN Ord(x[1]) < Ord(y[1])
    ELSE LessStr(Tail(x), Tail(y))

(* a key that keeps the order of its arguments *)
getConversationKey_Ordered(user1, user2) == user1 \o <<":">> \o user2

getConversationKey(user1, user2) ==
    IF LessStr(user1, user2) THEN user1 \o <<":">> \o user2
    ELSE user2 \o <<":">> \o user1

getConversationHistory(user1, user2) ==
    LET key == getConversationKey(user1, user2)
    IN  IF Has(privateMessages, key) THEN privateMessages[key] ELSE <<>>

getGroupHistory(groupID) ==
    IF Has(groupMessages, groupID) THEN groupMessages[groupID] ELSE <<>>

----------------------------------------------------------------------------
(* The hub: the part of the state the fan-out routines read and write.     *)
(* A routine is a function from hub to hub, so that a handler is the       *)
(* composition of the routines it calls, in the order it calls them.       *)

Hub == [clients |-> clients, send |-> send, closed |-> closed, panicked |-> panicked]

(* close(ch): closing a closed channel panics *)
CloseChan(H, s) ==
    IF H.panicked THEN H
    ELSE IF H.closed[s] THEN [H EXCEPT !.panicked = TRUE]
    ELSE [H EXCEPT !.closed[s] = TRUE]

(* an eviction that closes the channel and leaves the client registered *)
SendOrEvict_KeepEntry(H, u, s, frame) ==
    IF H.panicked THEN H
    ELSE IF H.closed[s] THEN [H EXCEPT !.panicked = TRUE]
    ELSE IF Len(H.send[s]) < QueueCap THEN [H EXCEPT !.send[s] = Append(@, frame)]
    ELSE CloseChan(H, s)

(* select { case client.send <- frame: default: delete(clients, u); close(client.send) } *)
SendOrEvict(H, u, s, frame) ==
    IF H.panicked THEN H
    ELSE IF H.closed[s] THEN [H EXCEPT !.panicked = TRUE]
    ELSE IF Len(H.send[s]) < QueueCap THEN [H EXCEPT !.send[s] = Append(@, frame)]
    ELSE CloseChan([H EXCEPT !.clients = Delete(@, u)], s)

(* select { case client.send <- frame: default: } *)
SendOrDrop(H, s, frame) ==
    IF H.panicked THEN H
    ELSE IF H.closed[s] THEN [H EXCEPT !.panicked = TRUE]
    ELSE IF Len(H.send[s]) < QueueCap THEN [H EXCEPT !.send[s] = Append(@, frame)]
    ELSE H

sendToUser(H, u, frame) ==
    IF ~Has(H.clients, u) THEN H
    ELSE SendOrEvict(H, u, H.clients[u], frame)

(* the loop over a snapshot of the clients map; frames[u] is the frame for u *)
RECURSIVE SendToSnapshot(_, _, _, _)
SendToSnapshot(H, snapshot, todo, frames) ==
    IF todo = {} THEN H
    ELSE LET u == CHOOSE x \in todo : TRUE
         IN  SendToSnapshot(SendOrEvict(H, u, snapshot[u], frames[u]),
                            snapshot, todo \ {u}, frames)

UserListFrame(H) == [type |-> "user_list", body |-> DOMAIN H.clients]

sendUserList(H) ==
    LET frame == UserListFrame(H)
    IN  SendToSnapshot(H, H.clients, DOMAIN H.clients,
                       [u \in DOMAIN H.clients |-> frame])

(* a group list that is not filtered by membership *)
GroupListFrame_All(G, u) ==
    [type |-> "group_list", body |-> {G[id] : id \in DOMAIN G}]

GroupListFrame(G, u) ==
    [type |-> "group_list",
     body |-> {G[id] : id \in {x \in DOMAIN G : contains(G[x].Members, u)}}]

sendGroupList(H, G) ==
    SendToSnapshot(H, H.clients, DOMAIN H.clients,
                   [u \in DOMAIN H.clients |-> GroupListFrame(G, u)])

broadcastMessage(H, frame) ==
    SendToSnapshot(H, H.clients, DOMAIN H.clients,
                   [u \in DOMAIN H.clients |-> frame])

SystemFrame(what, who, whom) ==
    [type |-> "system", body |-> <<what, who, whom>>]

RECURSIVE SendToMembers(_, _, _)
SendToMembers(H, members, frame) ==
    IF members = <<>> THEN H
    ELSE SendToMembers(sendToUser(H, Head(members), frame), Tail(members), frame)

sendToGroup(H, G, groupName, frame) ==
    IF ~Has(G, groupName) THEN H
    ELSE SendToMembers(H, G[groupName].Members, frame)

sendMessageHistory(H, s, chatType, chatID) ==
    LET history == IF chatType = "private"
                   THEN getConversationHistory(username[s], chatID)
                   ELSE IF chatType = "group" THEN getGroupHistory(chatID)
                   ELSE <<>>
    IN  SendOrDrop(H, s, [type |-> "history", body |-> history])

----------------------------------------------------------------------------
(* Registration: the /ws handler *)

(* registration that forgets to close the client it replaces *)
registerClient_NoClose(H, h, s) ==
    [H EXCEPT !.clients = Put(@, h, s)]

(* lines 217-223: close the existing client of the name, install the new one *)
registerClient(H, h, s) ==
    LET H1 == IF Has(H.clients, h) THEN CloseChan(H, H.clients[h]) ELSE H
    IN  IF H1.panicked THEN H1 ELSE [H1 EXCEPT !.clients = Put(@, h, s)]

wsHandler(H, G, h, s) ==
    LET H1 == registerClient(H, h, s)
        H2 == sendUserList(H1)
        H3 == sendGroupList(H2, G)
    IN  broadcastMessage(H3, SystemFrame("joined", h, EmptyStr))

----------------------------------------------------------------------------
(* Group handlers. Each returns the hub and the group directory it leaves. *)

Message(type, from, to, content) ==
    [Type |-> type, From |-> from, To |-> to, Content |-> content]

(* a group record that leaves the creator out of the member list *)
NewGroup_NoCreator(msg) ==
    [Name |-> msg.To, Admin |-> msg.From, Members |-> Split(msg.Content)]

NewGroup(msg) ==
    [Name |-> msg.To, Admin |-> msg.From,
     Members |-> <<msg.From>> \o Split(msg.Content)]

createGroup(H, G, msg) ==
    IF Len(Split(msg.Content)) = 0 THEN [hub |-> H, groups |-> G]
    ELSE LET G1 == Put(G, msg.To, NewGroup(msg))
             H1 == sendToGroup(H, G1, msg.To, SystemFrame("created", msg.To, msg.From))
         IN  [hub |-> sendGroupList(H1, G1), groups |-> G1]

(* add_group_member without the admin check *)
addGroupMember_NoAdminCheck(H, G, msg) ==
    IF ~Has(G, msg.To) THEN [hub |-> H, groups |-> G]
    ELSE LET G1 == [G EXCEPT ![msg.To].Members = Append(@, msg.Content)]
             H1 == sendToGroup(H, G1, msg.To, SystemFrame("added", msg.From, msg.Content))
         IN  [hub |-> sendGroupList(H1, G1), groups |-> G1]

addGroupMember(H, G, msg) ==
    IF ~Has(G, msg.To) THEN [hub |-> H, groups |-> G]
    ELSE IF G[msg.To].Admin # msg.From THEN [hub |-> H, groups |-> G]
    ELSE LET G1 == [G EXCEPT ![msg.To].Members = Append(@, msg.Content)]
             H1 == sendToGroup(H, G1, msg.To, SystemFrame("added", msg.From, msg.Content))
         IN  [hub |-> sendGroupList(H1, G1), groups |-> G1]

(* the loop that copies every member other than str *)
RECURSIVE Without(_, _)
Without(members, str) ==
    IF members = <<>> THEN <<>>
    ELSE IF Head(members) # str THEN <<Head(members)>> \o Without(Tail(members), str)
    ELSE Without(Tail(members), str)

removeGroupMember(H, G, msg) ==
    IF ~Has(G, msg.To) THEN [hub |-> H, groups |-> G]
    ELSE IF G[msg.To].Admin # msg.From THEN [hub |-> H, groups |-> G]
    ELSE LET G1 == [G EXCEPT ![msg.To].Members = Without(@, msg.Content)]
             H1 == sendToGroup(H, G1, msg.To, SystemFrame("removed", msg.From, msg.Content))
         IN  [hub |-> sendGroupList(H1, G1), groups |-> G1]

(* leaving without choosing a new admin *)
leaveDirectory_KeepAdmin(G, msg) ==
    LET newMembers == Without(G[msg.To].Members, msg.From)
    IN  IF Len(newMembers) = 0 THEN Delete(G, msg.To)
        ELSE [G EXCEPT ![msg.To].Members = newMembers]

(* lines 693-714: the directory after msg.From left group msg.To *)
leaveDirectory(G, msg) ==
    LET newMembers == Without(G[msg.To].Members, msg.From)
    IN  IF Len(newMembers) = 0 THEN Delete(G, msg.To)
        ELSE IF G[msg.To].Admin = msg.From
             THEN [G EXCEPT ![msg.To].Members = newMembers, ![msg.To].Admin = newMembers[1]]
             ELSE [G EXCEPT ![msg.To].Members = newMembers]

leaveGroup(H, G, msg) ==
    IF ~Has(G, msg.To) THEN [hub |-> H, groups |-> G]
    ELSE LET G1 == leaveDirectory(G, msg)
             H1 == sendToGroup(H, G1, msg.To, SystemFrame("left", msg.From, EmptyStr))
         IN  [hub |-> sendGroupList(H1, G1), groups |-> G1]

----------------------------------------------------------------------------
(* Messages, history and unread counts.                                    *)
(* A timestamp string is the second it names; NoTime is a string that      *)
(* time.Parse rejects. Store is the message store and the last-seen map.   *)

NoTime == -1
ParseOK(timestamp) == timestamp >= 0
(* a comparison that takes an equal time for a later one *)
After_OrEqual(t, u) == t >= u

After(t, u) == t > u

Store == [private |-> privateMessages, group |-> groupMessages,
          seen |-> lastSeenTimestamps]

(* the frame as the client wrote it *)
ClientFrame(type, from, to, content, timestamp) ==
    [Type |-> type, From |-> from, To |-> to, Content |-> content,
     Timestamp |-> timestamp]

(* a readPump that trusts the From the client wrote *)
Stamped_KeepFrom(frame, s) ==
    [frame EXCEPT !.Timestamp = now]

(* lines 307-308: readPump overwrites From and Timestamp *)
Stamped(frame, s) ==
    [frame EXCEPT !.From = username[s], !.Timestamp = now]

Log(m, key) == IF Has(m, key) THEN m[key] ELSE <<>>

(* a store that puts the newest message first *)
storeMessage_Prepend(D, msg) ==
    LET key == getConversationKey(msg.From, msg.To)
    IN  IF msg.Type = "private_message"
        THEN [D EXCEPT !.private = Put(@, key, <<msg>> \o Log(@, key))]
        ELSE [D EXCEPT !.group = Put(@, msg.To, <<msg>> \o Log(@, msg.To))]

(* a store that files a private message under sender:recipient *)
storeMessage_BySender(D, msg) ==
    LET key == msg.From \o Str(":") \o msg.To
    IN  IF msg.Type = "private_message"
        THEN [D EXCEPT !.private = Put(@, key, Append(Log(@, key), msg))]
        ELSE [D EXCEPT !.group = Put(@, msg.To, Append(Log(@, msg.To), msg))]

(* a store in which an append loses what the log held *)
storeMessage_LostUpdate(D, msg) ==
    LET key == getConversationKey(msg.From, msg.To)
    IN  IF msg.Type = "private_message"
        THEN [D EXCEPT !.private = Put(@, key, <<msg>>)]
        ELSE [D EXCEPT !.group = Put(@, msg.To, <<msg>>)]

storeMessage(D, msg) ==
    LET key == getConversationKey(msg.From, msg.To)
        D1 == IF msg.Type = "private_message"
              THEN [D EXCEPT !.private = Put(@, key, Append(Log(@, key), msg))]
              ELSE D
    IN  IF msg.Type = "group_message"
        THEN [D1 EXCEPT !.group = Put(@, msg.To, Append(Log(@, msg.To), msg))]
        ELSE D1

(* strings.Split(s, sep) for a one-character separator *)
RECURSIVE SplitBy(_, _)
SplitBy(s, sep) ==
    LET at == {i \in 1..Len(s) : s[i] = sep}
    IN  IF at = {} THEN <<s>>
        ELSE <<SubSeq(s, 1, Min(at) - 1)>> \o SplitBy(SubSeq(s, Min(at) + 1, Len(s)), sep)

RECURSIVE SumOver(_, _)
SumOver(f, S) ==
    IF S = {} THEN 0
    ELSE LET x == CHOOSE y \in S : TRUE IN f[x] + SumOver(f, S \ {x})

(* an update that marks the chat as seen for every user that has entries *)
updateLastSeen_Shared(D, user, chatID, timestamp) ==
    LET value == IF timestamp # NoTime /\ ParseOK(timestamp) THEN timestamp ELSE now
    IN  [D EXCEPT !.seen =
            [u \in DOMAIN D.seen \cup {user} |->
                Put(IF Has(D.seen, u) THEN D.seen[u] ELSE EmptyMap, chatID, value)]]

(* updateLastSeen: the timestamp given if it parses, else the current time *)
updateLastSeen(D, user, chatID, timestamp) ==
    LET mine == IF Has(D.seen, user) THEN D.seen[user] ELSE EmptyMap
        value == IF timestamp # NoTime /\ ParseOK(timestamp) THEN timestamp ELSE now
    IN  [D EXCEPT !.seen = Put(@, user, Put(mine, chatID, value))]

getUnreadCount(D, user, chatID) ==
    LET exists == Has(D.seen, user) /\ Has(D.seen[user], chatID)
        lastSeen == IF exists THEN D.seen[user][chatID] ELSE NoTime
        Unread(m) == /\ m.From # user
                     /\ exists => (ParseOK(m.Timestamp) /\ After(m.Timestamp, lastSeen))
        InKey(key) ==
            LET parts == SplitBy(key, ":")
                otherUser == IF parts[1] = user THEN parts[2] ELSE parts[1]
            IN  IF Len(parts) # 2 THEN 0
                ELSE IF otherUser = chatID THEN Len(SelectSeq(D.private[key], Unread))
                ELSE 0
        private == SumOver([key \in DOMAIN D.private |-> InKey(key)], DOMAIN D.private)
        group == IF Has(D.group, chatID) THEN Len(SelectSeq(D.group[chatID], Unread)) ELSE 0
    IN  IF exists /\ ~ParseOK(lastSeen) THEN 0 ELSE private + group

sendUnreadCounts(H, G, D, user) ==
    LET chats == {o \in DOMAIN H.clients \ {user} : getUnreadCount(D, user, o) > 0}
                 \cup {g \in DOMAIN G : contains(G[g].Members, user)
                                         /\ getUnreadCount(D, user, g) > 0}
        unreadCounts == [c \in chats |-> getUnreadCount(D, user, c)]
    IN  sendToUser(H, user, [type |-> "unread_count", body |-> unreadCounts])

(* a private_message case that also delivers the message to its sender *)
privateMessage_Echo(H, G, D, msg) ==
    LET D1 == storeMessage(D, msg)
        H1 == sendToUser(H, msg.To, [type |-> "private_message", body |-> msg])
        H2 == sendToUser(H1, msg.From, [type |-> "private_message", body |-> msg])
    IN  [hub |-> sendUnreadCounts(H2, G, D1, msg.To), store |-> D1]

(* readPump, case TypePrivateMessage *)
privateMessage(H, G, D, msg) ==
    LET D1 == storeMessage(D, msg)
        H1 == sendToUser(H, msg.To, [type |-> "private_message", body |-> msg])
    IN  [hub |-> sendUnreadCounts(H1, G, D1, msg.To), store |-> D1]

(* lines 326-334: unread counts to every member other than the sender *)
RECURSIVE UnreadToMembers(_, _, _, _, _)
UnreadToMembers(H, G, D, members, from) ==
    IF members = <<>> THEN H
    ELSE UnreadToMembers(IF Head(members) # from
                         THEN sendUnreadCounts(H, G, D, Head(members)) ELSE H,
                         G, D, Tail(members), from)

(* a group_message case that does not deliver to the sender *)
groupMessage_SkipSender(H, G, D, msg) ==
    LET D1 == storeMessage(D, msg)
        H1 == IF Has(G, msg.To)
              THEN SendToMembers(H, Without(G[msg.To].Members, msg.From),
                                 [type |-> "group_message", body |-> msg])
              ELSE H
    IN  [hub |-> IF Has(G, msg.To)
                 THEN UnreadToMembers(H1, G, D1, G[msg.To].Members, msg.From)
                 ELSE H1,
         store |-> D1]

(* readPump, case TypeGroupMessage *)
groupMessage(H, G, D, msg) ==
    LET D1 == storeMessage(D, msg)
        H1 == sendToGroup(H, G, msg.To, [type |-> "group_message", body |-> msg])
    IN  [hub |-> IF Has(G, msg.To)
                 THEN UnreadToMembers(H1, G, D1, G[msg.To].Members, msg.From)
                 ELSE H1,
         store |-> D1]

(* readPump, case TypeUpdateLastSeen *)
lastSeenUpdate(H, G, D, msg) ==
    LET D1 == updateLastSeen(D, msg.From, msg.To, msg.Timestamp)
    IN  [hub |-> sendUnreadCounts(H, G, D1, msg.From), store |-> D1]

----------------------------------------------------------------------------
(* Initial state: the maps are empty, no connection has been made. *)

(* a Message value before anything is decoded into it *)
ZeroMessage == [Type |-> "", From |-> EmptyStr, To |-> EmptyStr,
                Content |-> EmptyStr, Timestamp |-> NoTime]

(* readPump is at ReadMessage, between two frames *)
Idle == [at |-> "loop", msg |-> ZeroMessage, client |-> NoSession]

NoOp == [op |-> "none", sess |-> NoSession, from |-> EmptyStr, to |-> EmptyStr,
         content |-> EmptyStr, old |-> NoSession, frame |-> ZeroMessage]

Init ==
    /\ clients = EmptyMap
    /\ nextSession = 0
    /\ username = [s \in Sessions |-> EmptyStr]
    /\ send = [s \in Sessions |-> <<>>]
    /\ closed = [s \in Sessions |-> FALSE]
    /\ conn = [s \in Sessions |-> "none"]
    /\ rp = [s \in Sessions |-> "idle"]
    /\ wp = [s \in Sessions |-> "idle"]
    /\ groups = EmptyMap
    /\ privateMessages = EmptyMap
    /\ groupMessages = EmptyMap
    /\ lastSeenTimestamps = EmptyMap
    /\ now = 0
    /\ panicked = FALSE
    /\ pc = [s \in Sessions |-> Idle]
    /\ ops = 0
    /\ last = NoOp

SetHub(H) ==
    /\ clients' = H.clients
    /\ send' = H.send
    /\ closed' = H.closed
    /\ panicked' = H.panicked

(* A connection request for username h: a new Client, registration, the    *)
(* initial lists, the join notice, then the two pumps are started.         *)
Register(h) ==
    /\ ~panicked
    /\ nextSession < MaxSessions
    /\ LET s == nextSession + 1
           H == wsHandler([Hub EXCEPT !.send[s] = <<>>], groups, h, s)
       IN  /\ SetHub(H)
           /\ nextSession' = s
           /\ username' = [username EXCEPT ![s] = h]
           /\ conn' = [conn EXCEPT ![s] = "open"]
           /\ rp' = IF H.panicked THEN rp ELSE [rp EXCEPT ![s] = "run"]
           /\ wp' = IF H.panicked THEN wp ELSE [wp EXCEPT ![s] = "run"]
           /\ last' = [NoOp EXCEPT !.op = "register", !.sess = s, !.from = h,
                                   !.old = IF Has(clients, h) THEN clients[h] ELSE NoSession]
    /\ UNCHANGED <<pc, groups, privateMessages, groupMessages, lastSeenTimestamps, now, ops>>

(* One iteration of writePump: take a frame and write it, or find the      *)
(* channel closed and drained; a failed write or the close ends the pump   *)
(* and closes the connection.                                              *)
WritePump(s) ==
    /\ ~panicked
    /\ wp[s] = "run"
    /\ \/ /\ send[s] # <<>>
          /\ send' = [send EXCEPT ![s] = Tail(@)]
          /\ IF conn[s] = "open"
             THEN UNCHANGED <<wp, conn>>
             ELSE wp' = [wp EXCEPT ![s] = "done"] /\ UNCHANGED conn
       \/ /\ send[s] = <<>>
          /\ closed[s]
          /\ wp' = [wp EXCEPT ![s] = "done"]
          /\ conn' = [conn EXCEPT ![s] = "closed"]
          /\ UNCHANGED send
    /\ last' = [NoOp EXCEPT !.op = "write"]
    /\ UNCHANGED <<pc, clients, nextSession, username, closed, rp, groups,
                   privateMessages, groupMessages, lastSeenTimestamps, now, panicked, ops>>

(* ReadMessage fails (the peer went away or the connection was closed):    *)
(* readPump leaves its loop and runs its deferred cleanup.                 *)
ReadPumpExit(s) ==
    /\ ~panicked
    /\ rp[s] = "run"
    /\ pc[s] = Idle
    /\ clients' = Delete(clients, username[s])
    /\ conn' = [conn EXCEPT ![s] = "closed"]
    /\ rp' = [rp EXCEPT ![s] = "done"]
    /\ last' = [NoOp EXCEPT !.op = "read_exit", !.sess = s, !.from = username[s],
                            !.old = IF Has(clients, username[s])
                                    THEN clients[username[s]] ELSE NoSession]
    /\ UNCHANGED <<pc, nextSession, username, send, closed, wp, groups,
                   privateMessages, groupMessages, lastSeenTimestamps, now, panicked, ops>>

(* readPump of session s has read a frame and dispatches it *)
Receiving(s) ==
    /\ ~panicked
    /\ rp[s] = "run"
    /\ pc[s] = Idle
    /\ conn[s] = "open"

(* the handler returns and readPump goes back to ReadMessage *)
Dispatched(s, op, to, content) ==
    /\ ops' = ops + 1
    /\ last' = [NoOp EXCEPT !.op = op, !.sess = s, !.from = username[s],
                            !.to = to, !.content = content]
    /\ UNCHANGED <<pc, nextSession, username, conn, rp, wp>>

Handled(s, op, to, content) ==
    /\ Dispatched(s, op, to, content)
    /\ UNCHANGED <<privateMessages, groupMessages, lastSeenTimestamps, now>>

RequestHistory(s, chatType, chatID) ==
    /\ Receiving(s)
    /\ SetHub(sendMessageHistory(Hub, s, chatType, chatID))
    /\ Handled(s, "request_history", Str(chatType), chatID)
    /\ UNCHANGED groups

GroupOp(s, R, op, to, content) ==
    /\ SetHub(R.hub)
    /\ groups' = R.groups
    /\ Handled(s, op, to, content)

CreateGroup(s, name, content) ==
    /\ Receiving(s)
    /\ ops < MaxOps
    /\ GroupOp(s, createGroup(Hub, groups, Message("create_group", username[s], name, content)),
               "create_group", name, content)

AddGroupMember(s, name, member) ==
    /\ Receiving(s)
    /\ ops < MaxOps
    /\ Has(groups, name) => Len(groups[name].Members) < MaxMembers
    /\ GroupOp(s, addGroupMember(Hub, groups, Message("add_group_member", username[s], name, member)),
               "add_group_member", name, member)

RemoveGroupMember(s, name, member) ==
    /\ Receiving(s)
    /\ ops < MaxOps
    /\ GroupOp(s, removeGroupMember(Hub, groups, Message("remove_group_member", username[s], name, member)),
               "remove_group_member", name, member)

LeaveGroup(s, name) ==
    /\ Receiving(s)
    /\ ops < MaxOps
    /\ GroupOp(s, leaveGroup(Hub, groups, Message("leave_group", username[s], name, EmptyStr)),
               "leave_group", name, EmptyStr)

SetStore(D) ==
    /\ privateMessages' = D.private
    /\ groupMessages' = D.group
    /\ lastSeenTimestamps' = D.seen

PrivateMessage(s, frame) ==
    /\ Receiving(s)
    /\ LET R == privateMessage(Hub, groups, Store, Stamped(frame, s))
       IN  SetHub(R.hub) /\ SetStore(R.store)
    /\ Dispatched(s, "private_message", frame.To, frame.Content)
    /\ UNCHANGED <<groups, now>>

GroupMessage(s, frame) ==
    /\ Receiving(s)
    /\ LET R == groupMessage(Hub, groups, Store, Stamped(frame, s))
       IN  SetHub(R.hub) /\ SetStore(R.store)
    /\ Dispatched(s, "group_message", frame.To, frame.Content)
    /\ UNCHANGED <<groups, now>>

UpdateLastSeen(s, frame) ==
    /\ Receiving(s)
    /\ LET R == lastSeenUpdate(Hub, groups, Store, Stamped(frame, s))
       IN  SetHub(R.hub) /\ SetStore(R.store)
    /\ Dispatched(s, "update_last_seen", frame.To, frame.Content)
    /\ UNCHANGED <<groups, now>>

(* a second passes *)
Tick ==
    /\ ~panicked
    /\ now < MaxTime
    /\ now' = now + 1
    /\ UNCHANGED <<pc, clients, nextSession, username, send, closed, conn, rp, wp, groups,
                   privateMessages, groupMessages, lastSeenTimestamps, panicked, ops, last>>

(* json.Unmarshal(message, &msg): a wire message either decodes into the   *)
(* Message it spells or is rejected                                        *)
Wire(frame) == [json |-> TRUE, fields |-> frame]
Undecodable == [json |-> FALSE, fields |-> ZeroMessage]
Unmarshal(message) ==
    [err |-> ~message.json,
     msg |-> IF message.json THEN message.fields ELSE ZeroMessage]

ChatType(to) ==
    IF to = Str("private") THEN "private"
    ELSE IF to = Str("group") THEN "group" ELSE "other"

(* a default case that answers the sender with an error frame *)
unknownType_ErrorReply(H, G, D, s, msg) ==
    [hub |-> SendOrDrop(H, s, SystemFrame("error", msg.From, EmptyStr)),
     groups |-> G, store |-> D]

(* lines 351-353: the default case only logs *)
unknownType(H, G, D, s, msg) == [hub |-> H, groups |-> G, store |-> D]

(* lines 310-353: the switch on msg.Type *)
dispatch(H, G, D, s, msg) ==
    CASE msg.Type = "private_message" ->
            LET R == privateMessage(H, G, D, msg)
            IN  [hub |-> R.hub, groups |-> G, store |-> R.store]
      [] msg.Type = "group_message" ->
            LET R == groupMessage(H, G, D, msg)
            IN  [hub |-> R.hub, groups |-> G, store |-> R.store]
      [] msg.Type = "update_last_seen" ->
            LET R == lastSeenUpdate(H, G, D, msg)
            IN  [hub |-> R.hub, groups |-> G, store |-> R.store]
      [] msg.Type = "request_history" ->
            [hub |-> sendMessageHistory(H, s, ChatType(msg.To), msg.Content),
             groups |-> G, store |-> D]
      [] msg.Type = "create_group" ->
            LET R == createGroup(H, G, msg)
            IN  [hub |-> R.hub, groups |-> R.groups, store |-> D]
      [] msg.Type = "add_group_member" ->
            LET R == addGroupMember(H, G, msg)
            IN  [hub |-> R.hub, groups |-> R.groups, store |-> D]
      [] msg.Type = "remove_group_member" ->
            LET R == removeGroupMember(H, G, msg)
            IN  [hub |-> R.hub, groups |-> R.groups, store |-> D]
      [] msg.Type = "leave_group" ->
            LET R == leaveGroup(H, G, msg)
            IN  [hub |-> R.hub, groups |-> R.groups, store |-> D]
      [] OTHER -> unknownType(H, G, D, s, msg)

(* One iteration of readPump's loop on a wire message: decode (a message   *)
(* that does not decode is skipped), stamp, dispatch.                      *)
ReadFrame(s, message) ==
    /\ Receiving(s)
    /\ LET u == Unmarshal(message)
           R == IF u.err THEN [hub |-> Hub, groups |-> groups, store |-> Store]
                ELSE dispatch(Hub, groups, Store, s, Stamped(u.msg, s))
       IN  /\ SetHub(R.hub)
           /\ groups' = R.groups
           /\ SetStore(R.store)
    /\ ops' = ops + 1
    /\ last' = [NoOp EXCEPT !.op = IF message.json THEN message.fields.Type
                                   ELSE "undecodable",
                            !.sess = s, !.from = username[s],
                            !.to = message.fields.To,
                            !.content = message.fields.Content,
                            !.frame = message.fields]
    /\ UNCHANGED <<pc, nextSession, username, conn, rp, wp, now>>

(* The group_message and create_group cases step by step, with groupsMux.  *)
(* A session holds groupsMux for reading from the RLock of line 326 to the *)
(* RUnlock of line 334.                                                     *)
HoldsGroupsMux(s) == pc[s].at = "unread"

(* line 586: a task is inside groupsMux.Lock(): it waits for the readers   *)
(* to leave, or it has the lock                                             *)
WriterWaiting == \E t \in Sessions : pc[t].at = "wlock"

(* sync.RWMutex: RLock blocks while a writer is inside Lock *)
CanRLock == ~WriterWaiting

(* lines 292-308: a group_message frame is read and stamped; next is       *)
(* storeMessage                                                             *)
GroupMessageStamp(s, frame) ==
    /\ Receiving(s)
    /\ pc' = [pc EXCEPT ![s] = [Idle EXCEPT !.at = "store", !.msg = Stamped(frame, s)]]
    /\ last' = [NoOp EXCEPT !.op = "group_stamp", !.sess = s, !.from = username[s],
                            !.to = frame.To, !.content = frame.Content]
    /\ UNCHANGED <<clients, nextSession, username, send, closed, conn, rp, wp, groups,
                   privateMessages, groupMessages, lastSeenTimestamps, now, panicked, ops>>

(* line 321: storeMessage(msg), under msgMux from its first to its last    *)
(* line                                                                     *)
GroupMessageStore(s) ==
    /\ ~panicked
    /\ pc[s].at = "store"
    /\ SetStore(storeMessage(Store, pc[s].msg))
    /\ pc' = [pc EXCEPT ![s].at = "send"]
    /\ last' = [NoOp EXCEPT !.op = "group_store", !.sess = s, !.from = username[s],
                            !.to = pc[s].msg.To, !.content = pc[s].msg.Content]
    /\ UNCHANGED <<clients, nextSession, username, send, closed, conn, rp, wp, groups,
                   now, panicked, ops>>

(* lines 323-324: sendToGroup, which reads the member list under           *)
(* groupsMux.RLock (lines 447-449)                                          *)
GroupMessageSend(s) ==
    /\ ~panicked
    /\ pc[s].at = "send"
    /\ CanRLock
    /\ SetHub(sendToGroup(Hub, groups, pc[s].msg.To,
                          [type |-> "group_message", body |-> pc[s].msg]))
    /\ pc' = [pc EXCEPT ![s].at = "rlock"]
    /\ last' = [NoOp EXCEPT !.op = "group_send", !.sess = s, !.from = username[s],
                            !.to = pc[s].msg.To, !.content = pc[s].msg.Content]
    /\ UNCHANGED <<nextSession, username, conn, rp, wp, groups, privateMessages,
                   groupMessages, lastSeenTimestamps, now, ops>>

(* line 326: groupsMux.RLock() *)
GroupMessageRLock(s) ==
    /\ ~panicked
    /\ pc[s].at = "rlock"
    /\ CanRLock
    /\ pc' = [pc EXCEPT ![s].at = "unread"]
    /\ last' = [NoOp EXCEPT !.op = "rlock", !.sess = s, !.from = username[s]]
    /\ UNCHANGED <<clients, nextSession, username, send, closed, conn, rp, wp, groups,
                   privateMessages, groupMessages, lastSeenTimestamps, now, panicked, ops>>

(* lines 327-333: sendUnreadCounts is called, and takes groupsMux.RLock    *)
(* again at line 902, when the group has a member other than the sender    *)
CallsSendUnreadCounts(s) ==
    /\ Has(groups, pc[s].msg.To)
    /\ \E i \in 1..Len(groups[pc[s].msg.To].Members) :
          groups[pc[s].msg.To].Members[i] # pc[s].msg.From

(* lines 327-334: the unread counts of the other members, then RUnlock *)
GroupMessageUnread(s) ==
    /\ ~panicked
    /\ pc[s].at = "unread"
    /\ CallsSendUnreadCounts(s) => CanRLock
    /\ LET msg == pc[s].msg
       IN  /\ SetHub(IF Has(groups, msg.To)
                     THEN UnreadToMembers(Hub, groups, Store, groups[msg.To].Members, msg.From)
                     ELSE Hub)
           /\ last' = [NoOp EXCEPT !.op = "group_message", !.sess = s, !.from = msg.From,
                                   !.to = msg.To, !.content = msg.Content]
    /\ pc' = [pc EXCEPT ![s] = Idle]
    /\ ops' = ops + 1
    /\ UNCHANGED <<nextSession, username, conn, rp, wp, groups, privateMessages,
                   groupMessages, lastSeenTimestamps, now>>

(* lines 292-308 and 568-586: a create_group frame is read and stamped and *)
(* createGroup calls groupsMux.Lock()                                       *)
CreateGroupLock(s, frame) ==
    /\ Receiving(s)
    /\ pc' = [pc EXCEPT ![s] = [Idle EXCEPT !.at = "wlock", !.msg = Stamped(frame, s)]]
    /\ last' = [NoOp EXCEPT !.op = "wlock", !.sess = s, !.from = username[s],
                            !.to = frame.To, !.content = frame.Content]
    /\ UNCHANGED <<clients, nextSession, username, send, closed, conn, rp, wp, groups,
                   privateMessages, groupMessages, lastSeenTimestamps, now, panicked, ops>>

(* lines 586-588: Lock returns once no reader holds groupsMux; the group   *)
(* is stored and the lock released                                          *)
CreateGroupLocked(s) ==
    /\ ~panicked
    /\ pc[s].at = "wlock"
    /\ \A t \in Sessions : ~HoldsGroupsMux(t)
    /\ groups' = Put(groups, pc[s].msg.To, NewGroup(pc[s].msg))
    /\ pc' = [pc EXCEPT ![s].at = "notify"]
    /\ last' = [NoOp EXCEPT !.op = "group_stored", !.sess = s, !.from = username[s],
                            !.to = pc[s].msg.To, !.content = pc[s].msg.Content]
    /\ UNCHANGED <<clients, nextSession, username, send, closed, conn, rp, wp,
                   privateMessages, groupMessages, lastSeenTimestamps, now, panicked, ops>>

(* lines 590-600: the members are notified (sendToGroup reads the member   *)
(* list under groupsMux.RLock) and every client gets its group list        *)
CreateGroupNotify(s) ==
    /\ ~panicked
    /\ pc[s].at = "notify"
    /\ CanRLock
    /\ LET msg == pc[s].msg
       IN  /\ SetHub(sendGroupList(sendToGroup(Hub, groups, msg.To,
                                               SystemFrame("created", msg.To, msg.From)),
                                   groups))
           /\ last' = [NoOp EXCEPT !.op = "create_group", !.sess = s, !.from = msg.From,
                                   !.to = msg.To, !.content = msg.Content]
    /\ pc' = [pc EXCEPT ![s] = Idle]
    /\ ops' = ops + 1
    /\ UNCHANGED <<nextSession, username, conn, rp, wp, groups, privateMessages,
                   groupMessages, lastSeenTimestamps, now>>

(* The private_message case step by step: sendToUser looks the recipient   *)
(* up under clientsMux.RLock and sends after the RUnlock.                   *)

(* lines 292-313 and 424-426: the frame is read, stamped and stored;       *)
(* sendToUser reads clients[msg.To]                                         *)
PrivateLookup(s, frame) ==
    /\ Receiving(s)
    /\ LET msg == Stamped(frame, s)
       IN  /\ SetStore(storeMessage(Store, msg))
           /\ pc' = [pc EXCEPT ![s] =
                        [at |-> "select", msg |-> msg,
                         client |-> IF Has(clients, msg.To) THEN clients[msg.To]
                                    ELSE NoSession]]
    /\ last' = [NoOp EXCEPT !.op = "private_lookup", !.sess = s, !.from = username[s],
                            !.to = frame.To, !.content = frame.Content]
    /\ UNCHANGED <<clients, nextSession, username, send, closed, conn, rp, wp, groups,
                   now, panicked, ops>>

(* lines 428-443: nothing when the name was not found; else the send on    *)
(* the channel of the client that was found, or its eviction               *)
PrivateSelect(s) ==
    /\ ~panicked
    /\ pc[s].at = "select"
    /\ SetHub(IF pc[s].client = NoSession THEN Hub
              ELSE SendOrEvict(Hub, pc[s].msg.To, pc[s].client,
                               [type |-> "private_message", body |-> pc[s].msg]))
    /\ pc' = [pc EXCEPT ![s].at = "counts"]
    /\ last' = [NoOp EXCEPT !.op = "private_select", !.sess = s, !.from = username[s],
                            !.to = pc[s].msg.To, !.content = pc[s].msg.Content,
                            !.old = pc[s].client]
    /\ UNCHANGED <<nextSession, username, conn, rp, wp, groups, privateMessages,
                   groupMessages, lastSeenTimestamps, now, ops>>

(* line 316: sendUnreadCounts(msg.To) *)
PrivateUnread(s) ==
    /\ ~panicked
    /\ pc[s].at = "counts"
    /\ SetHub(sendUnreadCounts(Hub, groups, Store, pc[s].msg.To))
    /\ pc' = [pc EXCEPT ![s] = Idle]
    /\ ops' = ops + 1
    /\ last' = [NoOp EXCEPT !.op = "private_message", !.sess = s, !.from = pc[s].msg.From,
                            !.to = pc[s].msg.To, !.content = pc[s].msg.Content]
    /\ UNCHANGED <<nextSession, username, conn, rp, wp, groups, privateMessages,
                   groupMessages, lastSeenTimestamps, now>>

(* The registry and the session lifecycle: connections come and go, the   *)
(* pumps run, clients ask for history.                                     *)
Next ==
    \/ /\ nextSession < MaxConnections
       /\ \E h \in Users : Register(h)
    \/ \E s \in Sessions : WritePump(s)
    \/ \E s \in Sessions : ReadPumpExit(s)
    \/ /\ ops < MaxRequests
       /\ \E s \in Sessions, chatType \in {"private", "group"}, chatID \in Users \cup GroupNames :
             RequestHistory(s, chatType, chatID)

Spec == Init /\ [][Next]_vars

(* Scheduling: a pump that can take a step eventually does. writePump      *)
(* blocks on its channel only while the channel is empty and open;         *)
(* ReadMessage returns an error once the connection has been closed. When  *)
(* the peer of an open connection goes away is up to the peer.             *)
Fairness ==
    \A s \in Sessions :
        /\ WF_vars(WritePump(s))
        /\ WF_vars(conn[s] = "closed" /\ ReadPumpExit(s))

SpecLive == Init /\ [][Next]_vars /\ Fairness

(* The group directory: both users are connected (sessions 1 and 2, their  *)
(* first frames already written out) and send group requests.              *)
InitGroups ==
    /\ clients = [u \in Users |-> IF u = Str("a") THEN 1 ELSE 2]
    /\ nextSession = 2
    /\ username = [s \in Sessions |-> IF s = 1 THEN Str("a")
                                      ELSE IF s = 2 THEN Str("b") ELSE EmptyStr]
    /\ send = [s \in Sessions |-> <<>>]
    /\ closed = [s \in Sessions |-> FALSE]
    /\ conn = [s \in Sessions |-> IF s <= 2 THEN "open" ELSE "none"]
    /\ rp = [s \in Sessions |-> IF s <= 2 THEN "run" ELSE "idle"]
    /\ wp = [s \in Sessions |-> IF s <= 2 THEN "run" ELSE "idle"]
    /\ groups = EmptyMap
    /\ privateMessages = EmptyMap
    /\ groupMessages = EmptyMap
    /\ lastSeenTimestamps = EmptyMap
    /\ now = 0
    /\ panicked = FALSE
    /\ pc = [s \in Sessions |-> Idle]
    /\ ops = 0
    /\ last = NoOp

(* Messaging: "a" is connected (session 1, its first frames written out), *)
(* a second connection may be made; clients send private messages and ask  *)
(* for history.                                                            *)
InitChat ==
    /\ clients = [u \in {Str("a")} |-> 1]
    /\ nextSession = 1
    /\ username = [s \in Sessions |-> IF s = 1 THEN Str("a") ELSE EmptyStr]
    /\ send = [s \in Sessions |-> <<>>]
    /\ closed = [s \in Sessions |-> FALSE]
    /\ conn = [s \in Sessions |-> IF s = 1 THEN "open" ELSE "none"]
    /\ rp = [s \in Sessions |-> IF s = 1 THEN "run" ELSE "idle"]
    /\ wp = [s \in Sessions |-> IF s = 1 THEN "run" ELSE "idle"]
    /\ groups = EmptyMap
    /\ privateMessages = EmptyMap
    /\ groupMessages = EmptyMap
    /\ lastSeenTimestamps = EmptyMap
    /\ now = 0
    /\ panicked = FALSE
    /\ pc = [s \in Sessions |-> Idle]
    /\ ops = 0
    /\ last = NoOp

NextChat ==
    \/ /\ nextSession < MaxConnections
       /\ \E h \in Users : Register(h)
    \/ \E s \in Sessions : WritePump(s)
    \/ /\ ops < MaxChatOps
       /\ \E s \in Sessions, to \in Users, content \in MsgContents,
             from \in {EmptyStr, Str("b")}, timestamp \in {NoTime, 0} :
             PrivateMessage(s, ClientFrame("private_message", from, to, content, timestamp))
    \/ /\ ops < MaxChatOps
       /\ \E s \in Sessions, chatID \in Users : RequestHistory(s, "private", chatID)

SpecChat == InitChat /\ [][NextChat]_vars

(* The conversation key as a function: a pair of handles is drawn, the key *)
(* of the pair is computed.                                                *)
HandleChars == {"a", "b", ":"}
Handles == UNION {[1..n -> HandleChars] : n \in 0..MaxHandleLen}

InitKey ==
    /\ clients = EmptyMap
    /\ nextSession = 0
    /\ username = [s \in Sessions |-> EmptyStr]
    /\ send = [s \in Sessions |-> <<>>]
    /\ closed = [s \in Sessions |-> FALSE]
    /\ conn = [s \in Sessions |-> "none"]
    /\ rp = [s \in Sessions |-> "idle"]
    /\ wp = [s \in Sessions |-> "idle"]
    /\ groups = EmptyMap
    /\ privateMessages = EmptyMap
    /\ groupMessages = EmptyMap
    /\ lastSeenTimestamps = EmptyMap
    /\ now = 0
    /\ panicked = FALSE
    /\ pc = [s \in Sessions |-> Idle]
    /\ ops = 0
    /\ \E user1 \in Handles, user2 \in Handles :
          last = [NoOp EXCEPT !.op = "handles", !.from = user1, !.to = user2]

ConversationKey ==
    /\ last.op = "handles"
    /\ last' = [last EXCEPT !.op = "key",
                            !.content = getConversationKey(last.from, last.to)]
    /\ UNCHANGED <<pc, clients, nextSession, username, send, closed, conn, rp, wp, groups,
                   privateMessages, groupMessages, lastSeenTimestamps, now, panicked, ops>>

NextKey == ConversationKey

SpecKey == InitKey /\ [][NextKey]_vars

(* Unread counts: "a" and "b" are connected and are the members of group  *)
(* "g" (created by "a", the frames of that written out); they send private *)
(* and group messages and mark chats as seen while the clock advances.     *)
InitUnread ==
    /\ clients = [u \in Users |-> IF u = Str("a") THEN 1 ELSE 2]
    /\ nextSession = 2
    /\ username = [s \in Sessions |-> IF s = 1 THEN Str("a")
                                      ELSE IF s = 2 THEN Str("b") ELSE EmptyStr]
    /\ send = [s \in Sessions |-> <<>>]
    /\ closed = [s \in Sessions |-> FALSE]
    /\ conn = [s \in Sessions |-> IF s <= 2 THEN "open" ELSE "none"]
    /\ rp = [s \in Sessions |-> IF s <= 2 THEN "run" ELSE "idle"]
    /\ wp = [s \in Sessions |-> IF s <= 2 THEN "run" ELSE "idle"]
    /\ groups = [n \in GroupNames |->
                    NewGroup(Message("create_group", Str("a"), n, Str("b")))]
    /\ privateMessages = EmptyMap
    /\ groupMessages = EmptyMap
    /\ lastSeenTimestamps = EmptyMap
    /\ now = 0
    /\ panicked = FALSE
    /\ pc = [s \in Sessions |-> Idle]
    /\ ops = 0
    /\ last = NoOp

NextUnread ==
    \/ Tick
    \/ \E s \in Sessions : WritePump(s)
    \/ /\ ops < MaxUnreadOps
       /\ \E s \in Sessions, to \in Recipients,
             from \in {EmptyStr, Str("b")}, timestamp \in {NoTime, 0} :
             PrivateMessage(s, ClientFrame("private_message", from, to, Str("x"), timestamp))
    \/ /\ ops < MaxUnreadOps
       /\ \E s \in Sessions, to \in GroupNames,
             from \in {EmptyStr, Str("b")}, timestamp \in {NoTime, 0} :
             GroupMessage(s, ClientFrame("group_message", from, to, Str("x"), timestamp))
    \/ /\ ops < MaxUnreadOps
       /\ \E s \in Sessions, chatID \in Recipients \cup GroupNames,
             from \in {EmptyStr, Str("b")}, timestamp \in {NoTime, 0} :
             UpdateLastSeen(s, ClientFrame("update_last_seen", from, chatID, EmptyStr, timestamp))

SpecUnread == InitUnread /\ [][NextUnread]_vars

(* Frames of every kind: "a" and "b" are connected and are the members of  *)
(* group "g"; each sends wire messages of every type, well formed or not,  *)
(* honest (From and Timestamp left empty) or forged (another user's name   *)
(* as From, a time of its own as Timestamp); sessions end.                 *)
Claimed(s) == {<<EmptyStr, NoTime>>} \cup {<<u, 0>> : u \in Users \ {username[s]}}

Requests ==
    {<<"private_message", to, Str("x")>> : to \in Users}
    \cup {<<"group_message", to, Str("x")>> : to \in GroupNames}
    \cup {<<"update_last_seen", to, EmptyStr>> : to \in Users \cup GroupNames}
    \cup {<<"request_history", Str("private"), chatID>> : chatID \in Users}
    \cup {<<"request_history", Str("group"), chatID>> : chatID \in GroupNames}
    \cup {<<"create_group", to, content>> : to \in GroupNames, content \in {EmptyStr, Str("b")}}
    \cup {<<"add_group_member", to, member>> : to \in GroupNames, member \in Recipients}
    \cup {<<"remove_group_member", to, member>> : to \in GroupNames, member \in Users}
    \cup {<<"leave_group", to, EmptyStr>> : to \in GroupNames}
    \cup {<<"typing", to, EmptyStr>> : to \in Users}

WireMessages(s) ==
    {Undecodable}
    \cup {Wire(ClientFrame(r[1], c[1], r[2], r[3], c[2])) : r \in Requests, c \in Claimed(s)}

NextFrames ==
    \/ Tick
    \/ \E s \in Sessions : WritePump(s)
    \/ \E s \in Sessions : ReadPumpExit(s)
    \/ /\ ops < MaxFrames
       /\ \E s \in Sessions : \E message \in WireMessages(s) : ReadFrame(s, message)

SpecFrames == InitUnread /\ [][NextFrames]_vars

(* Locks: "a" and "b" are connected and are the members of group "g"; they *)
(* send group messages, whose handlers run step by step and interleave.    *)
InHandler == {s \in Sessions : pc[s] # Idle}

NextLocks ==
    \/ Tick
    \/ \E s \in Sessions : WritePump(s)
    \/ /\ ops + Cardinality(InHandler) < MaxLockOps
       /\ \E s \in Sessions, to \in GroupNames, content \in MsgContents :
             GroupMessageStamp(s, ClientFrame("group_message", EmptyStr, to, content, NoTime))
    \/ \E s \in Sessions : GroupMessageStore(s)
    \/ \E s \in Sessions : GroupMessageSend(s)
    \/ \E s \in Sessions : GroupMessageRLock(s)
    \/ \E s \in Sessions : GroupMessageUnread(s)
    \/ /\ ops + Cardinality(InHandler) < MaxLockOps
       /\ \E s \in Sessions, to \in GroupNames, content \in MemberLists :
             CreateGroupLock(s, ClientFrame("create_group", EmptyStr, to, content, NoTime))
    \/ \E s \in Sessions : CreateGroupLocked(s)
    \/ \E s \in Sessions : CreateGroupNotify(s)

SpecLocks == InitUnread /\ [][NextLocks]_vars

(* the steps of a handler that take or release groupsMux *)
LockStep(s) ==
    \/ GroupMessageStore(s)
    \/ GroupMessageSend(s)
    \/ GroupMessageRLock(s)
    \/ GroupMessageUnread(s)
    \/ CreateGroupLocked(s)

(* Scheduling: a task that is not blocked on a lock or a channel           *)
(* eventually takes its next step up to the release of the lock.           *)
FairnessLocks ==
    \A s \in Sessions : WF_vars(WritePump(s)) /\ WF_vars(LockStep(s))

SpecLocksLive == InitUnread /\ [][NextLocks]_vars /\ FairnessLocks

NextGroups ==
    \/ \E s \in Sessions : WritePump(s)
    \/ \E s \in Sessions, name \in GroupNames, content \in MemberLists :
          CreateGroup(s, name, content)
    \/ \E s \in Sessions, name \in GroupNames, member \in MemberNames :
          AddGroupMember(s, name, member)
    \/ \E s \in Sessions, name \in GroupNames, member \in MemberNames :
          RemoveGroupMember(s, name, member)
    \/ \E s \in Sessions, name \in GroupNames : LeaveGroup(s, name)

SpecGroups == InitGroups /\ [][NextGroups]_vars

(* Group messaging: both users are connected and no group exists; groups   *)
(* are created, group messages are sent and group history is asked for.    *)
NextGroupChat ==
    \/ \E s \in Sessions : WritePump(s)
    \/ \E s \in Sessions, name \in GroupNames, content \in MemberLists :
          CreateGroup(s, name, content)
    \/ /\ ops < MaxGroupChatOps
       /\ \E s \in Sessions, to \in GroupNames :
             GroupMessage(s, ClientFrame("group_message", EmptyStr, to, Str("x"), NoTime))
    \/ /\ ops < MaxGroupChatOps
       /\ \E s \in Sessions, chatID \in GroupNames : RequestHistory(s, "group", chatID)

SpecGroupChat == InitGroups /\ [][NextGroupChat]_vars

(* Handles that hold the separator: "a" and ":" are connected (sessions 1  *)
(* and 2); they send private messages to handles of the kind and ask for    *)
(* the history of conversations with them.                                  *)
ColonHandles == {Str("a"), Str(":"), <<":", ":">>, <<":", "a">>}

InitHandles ==
    /\ clients = [u \in {Str("a"), Str(":")} |-> IF u = Str("a") THEN 1 ELSE 2]
    /\ nextSession = 2
    /\ username = [s \in Sessions |-> IF s = 1 THEN Str("a")
                                      ELSE IF s = 2 THEN Str(":") ELSE EmptyStr]
    /\ send = [s \in Sessions |-> <<>>]
    /\ closed = [s \in Sessions |-> FALSE]
    /\ conn = [s \in Sessions |-> IF s <= 2 THEN "open" ELSE "none"]
    /\ rp = [s \in Sessions |-> IF s <= 2 THEN "run" ELSE "idle"]
    /\ wp = [s \in Sessions |-> IF s <= 2 THEN "run" ELSE "idle"]
    /\ groups = EmptyMap
    /\ privateMessages = EmptyMap
    /\ groupMessages = EmptyMap
    /\ lastSeenTimestamps = EmptyMap
    /\ now = 0
    /\ panicked = FALSE
    /\ pc = [s \in Sessions |-> Idle]
    /\ ops = 0
    /\ last = NoOp

NextHandles ==
    \/ \E s \in Sessions : WritePump(s)
    \/ /\ ops < MaxHandleOps
       /\ \E s \in Sessions, to \in ColonHandles, content \in MsgContents :
             PrivateMessage(s, ClientFrame("private_message", EmptyStr, to, content, NoTime))
    \/ /\ ops < MaxHandleOps
       /\ \E s \in Sessions, chatID \in ColonHandles : RequestHistory(s, "private", chatID)

SpecHandles == InitHandles /\ [][NextHandles]_vars

(* Eviction: "a" is connected; connections are made and lost while private *)
(* messages are handled step by step.                                       *)
NextEvict ==
    \/ \E h \in Users : Register(h)
    \/ \E s \in Sessions : WritePump(s)
    \/ \E s \in Sessions : ReadPumpExit(s)
    \/ /\ ops + Cardinality(InHandler) < MaxEvictOps
       /\ \E s \in Sessions, to \in Users :
             PrivateLookup(s, ClientFrame("private_message", EmptyStr, to, Str("x"), NoTime))
    \/ \E s \in Sessions : PrivateSelect(s)
    \/ \E s \in Sessions : PrivateUnread(s)

SpecEvict == InitChat /\ [][NextEvict]_vars

----------------------------------------------------------------------------
(* Properties *)

Registered(s) == Has(clients, username[s]) /\ clients[username[s]] = s

(* C1: when a name that already has a registered client registers again,  *)
(* the registry afterwards maps the name to the new client, whose channel  *)
(* is open, and the channel of the client it replaced has been closed.     *)
C1_ReRegisterReplaces ==
    (last.op = "register" /\ last.old # NoSession) =>
        /\ Has(clients, last.from)
        /\ clients[last.from] = last.sess
        /\ last.sess # last.old
        /\ ~closed[last.sess]
        /\ closed[last.old]
        /\ \A s \in Sessions : Registered(s) /\ username[s] = last.from => s = last.sess

C1_Witness == last.op = "register" /\ last.old # NoSession /\ closed[last.old]

(* C2: the process never panics: no send on a closed channel and no       *)
(* second close of a channel.                                              *)
C2_NeverPanics == ~panicked

(* C3: when the readPump of a session exits, no other session loses its   *)
(* registry entry: a different session registered under the same name is   *)
(* still registered afterwards.                                            *)
C3_ExitRemovesOnlyOwnEntry ==
    (last.op = "read_exit" /\ last.old # NoSession /\ last.old # last.sess) =>
        (Has(clients, last.from) /\ clients[last.from] = last.old)

(* C4: whenever a step tries to enqueue a frame on a session whose channel *)
(* is full (an already registered client during a registration's fan-out,  *)
(* or the requester of a history reply), the frame is dropped and the      *)
(* session is no longer in the registry afterwards.                        *)
C4_Attempted(t) ==
    \/ /\ nextSession' = nextSession + 1
       /\ Registered(t)
       /\ username[t] # last'.from
    \/ /\ ops' = ops + 1
       /\ last'.op = "request_history"
       /\ last'.sess = t

C4_FullQueueEvicts ==
    [][\A t \in Sessions :
          (C4_Attempted(t) /\ ~closed[t] /\ Len(send[t]) = QueueCap) =>
              /\ send'[t] = send[t]
              /\ ~(Has(clients', username[t]) /\ clients'[username[t]] = t)]_vars

(* C5: the admin of every group in the directory is one of its members.   *)
C5_AdminIsMember ==
    \A g \in DOMAIN groups : contains(groups[g].Members, groups[g].Admin)

(* C6: no group in the directory has an empty member list.                *)
C6_NoEmptyGroup ==
    \A g \in DOMAIN groups : Len(groups[g].Members) > 0

(* C7: create_group for a name that is already in the directory leaves    *)
(* the existing group as it was.                                           *)
C7_CreateDoesNotOverwrite ==
    [][(ops' = ops + 1 /\ last'.op = "create_group" /\ Has(groups, last'.to)) =>
          (Has(groups', last'.to) /\ groups'[last'.to] = groups[last'.to])]_vars

(* C8: create_group with an empty Content inserts no group.               *)
C8_EmptyListRejected ==
    [][(ops' = ops + 1 /\ last'.op = "create_group" /\ last'.content = EmptyStr) =>
          groups' = groups]_vars

(* The names a Content lists: the maximal comma-free pieces of the string *)
Cuts(c) == {0, Len(c) + 1} \cup CommaAt(c)
Listed(c) ==
    {SubSeq(c, p[1] + 1, p[2] - 1) :
        p \in {q \in Cuts(c) \X Cuts(c) :
                  q[1] < q[2] /\ \A k \in Cuts(c) : ~(q[1] < k /\ k < q[2])}}

MemberSet(g) == {g.Members[i] : i \in 1..Len(g.Members)}

NewestIsGroupListWith(s, g) ==
    /\ send[s] # <<>>
    /\ send[s][Len(send[s])].type = "group_list"
    /\ g \in send[s][Len(send[s])].body

(* C9: after create_group(name, creator, list) the directory holds group  *)
(* name with admin creator and exactly the members creator and the listed  *)
(* names; every listed name that was registered is either still registered *)
(* and has, as the newest frame of its channel, a group_list with the      *)
(* group, or found its channel full and was evicted.                       *)
C9_CreateGroup ==
    [][(ops' = ops + 1 /\ last'.op = "create_group") =>
          /\ Has(groups', last'.to)
          /\ groups'[last'.to].Name = last'.to
          /\ groups'[last'.to].Admin = last'.from
          /\ MemberSet(groups'[last'.to]) = {last'.from} \cup Listed(last'.content)
          /\ \A m \in Listed(last'.content) \cap DOMAIN clients :
                \/ /\ Has(clients', m)
                   /\ clients'[m] = clients[m]
                   /\ NewestIsGroupListWith(clients[m], groups[last.to])'
                \/ /\ ~Has(clients', m)
                   /\ closed'[clients[m]]
                   /\ Len(send'[clients[m]]) = QueueCap]_vars

C9_Witness ==
    /\ last.op = "create_group"
    /\ \E m \in Listed(last.content) \ {last.from} :
          /\ Has(clients, m)
          /\ NewestIsGroupListWith(clients[m], groups[last.to])

(* C10: no name occurs twice in the member list of a group.               *)
C10_MembersDistinct ==
    \A g \in DOMAIN groups :
        \A i, j \in 1..Len(groups[g].Members) :
            i # j => groups[g].Members[i] # groups[g].Members[j]

(* The frames a step appended to the channel of session s *)
NewFrames(s) ==
    {send'[s][i] : i \in (Len(send[s]) + 1)..Len(send'[s])}

(* C11: every group_list frame a step enqueues for a client holds only    *)
(* groups as they are in the directory when the list is computed, and the  *)
(* client is a member of each of them; so in every channel every group of  *)
(* every group_list frame has the channel's user among its members.        *)
C11_GroupListsAreFiltered ==
    [][\A s \in Sessions :
          /\ Len(send'[s]) > Len(send[s]) =>
                \A f \in NewFrames(s) :
                    f.type = "group_list" =>
                        \A g \in f.body :
                            /\ Has(groups', g.Name)
                            /\ groups'[g.Name] = g
                            /\ contains(g.Members, username'[s])
          /\ \A i \in 1..Len(send'[s]) :
                send'[s][i].type = "group_list" =>
                    \A g \in send'[s][i].body : contains(g.Members, username'[s])]_vars

C11_Witness ==
    \E s, t \in Sessions, g \in DOMAIN groups :
        /\ s # t
        /\ \E i \in 1..Len(send[s]) :
              send[s][i].type = "group_list" /\ groups[g] \in send[s][i].body
        /\ ~contains(groups[g].Members, username[t])
        /\ \E j \in 1..Len(send[t]) :
              send[t][j].type = "group_list" /\ send[t][j].body = {}

(* C12: add_group_member and remove_group_member from a handle that is    *)
(* not the admin of the group, or for a group that is not in the           *)
(* directory, change neither the directory nor any client's channel nor    *)
(* the registry.                                                           *)
C12_Refused(op, from, to) ==
    /\ op \in {"add_group_member", "remove_group_member"}
    /\ (~Has(groups, to) \/ groups[to].Admin # from)

C12_UnauthorizedChangesNothing ==
    [][(ops' = ops + 1 /\ C12_Refused(last'.op, last'.from, last'.to)) =>
          /\ groups' = groups
          /\ send' = send
          /\ clients' = clients
          /\ closed' = closed]_vars

C12_Witness ==
    /\ C12_Refused(last.op, last.from, last.to)
    /\ Has(groups, last.to)
    /\ contains(groups[last.to].Members, last.from)

(* C13: leave_group from a handle that is not in the member list of the   *)
(* group changes neither the directory nor any client's channel.           *)
C13_LeaveOfNonMemberIsNoOp ==
    [][(/\ ops' = ops + 1
        /\ last'.op = "leave_group"
        /\ Has(groups, last'.to)
        /\ ~contains(groups[last'.to].Members, last'.from)) =>
          (groups' = groups /\ send' = send)]_vars

(* C14: when the admin leaves a group that has another member, the group  *)
(* stays, its members are the old list without the admin and its admin is  *)
(* the first of them; when somebody else leaves, the admin is unchanged.   *)
C14_Remaining(members, who) ==
    LET keep(x) == x # who IN SelectSeq(members, keep)

C14_AdminLeaves ==
    [][(ops' = ops + 1 /\ last'.op = "leave_group" /\ Has(groups, last'.to)) =>
          LET g == groups[last'.to]
              rest == C14_Remaining(g.Members, last'.from)
          IN  /\ (g.Admin = last'.from /\ rest # <<>>) =>
                    /\ Has(groups', last'.to)
                    /\ groups'[last'.to].Members = rest
                    /\ groups'[last'.to].Admin = rest[1]
                    /\ groups'[last'.to].Admin # last'.from
              /\ (g.Admin # last'.from /\ Has(groups', last'.to)) =>
                    groups'[last'.to].Admin = g.Admin]_vars

(* after create_group by a and leave_group by a, b is the admin *)
C14_Witness ==
    /\ ops = 2
    /\ last.op = "leave_group"
    /\ last.from = Str("a")
    /\ Has(groups, last.to)
    /\ groups[last.to].Admin = Str("b")
    /\ \E s \in Sessions : \E i \in 1..Len(send[s]) :
          send[s][i] = SystemFrame("created", last.to, Str("a"))


----------------------------------------------------------------------------
(* Private messages *)

Sent(l) ==
    [Type |-> "private_message", From |-> l.from, To |-> l.to,
     Content |-> l.content, Timestamp |-> now]

(* C15: a private_message handler appends the message, stamped with the   *)
(* sender's name, to the end of the log of the conversation whether or not *)
(* the recipient is registered, leaves every other log alone and enqueues  *)
(* nothing on the sender's channel (no error frame) unless the sender is   *)
(* the recipient; a request_history(private, x) handler whose channel has  *)
(* room enqueues one history frame whose body is that log, so messages     *)
(* sent while the recipient was offline are replayed in send order.        *)
C15_StoredAndReplayed ==
    [][ops' = ops + 1 =>
          LET l == last'
              key == getConversationKey(l.from, l.to)
          IN  /\ l.op = "private_message" =>
                    /\ Has(privateMessages', key)
                    /\ privateMessages'[key] = Append(Log(privateMessages, key), Sent(l))
                    /\ \A k \in DOMAIN privateMessages' \ {key} :
                          Has(privateMessages, k) /\ privateMessages'[k] = privateMessages[k]
                    /\ l.to # l.from => send'[l.sess] = send[l.sess]
              /\ (/\ l.op = "request_history"
                  /\ l.to = Str("private")
                  /\ ~closed[l.sess]
                  /\ Len(send[l.sess]) < QueueCap) =>
                    send'[l.sess] =
                        Append(send[l.sess],
                               [type |-> "history",
                                body |-> Log(privateMessages,
                                             getConversationKey(l.from, l.content))])]_vars

(* "b" registered after "a" had sent it x and then y: in its channel the   *)
(* notice of its own arrival is directly followed by the history of both   *)
C15_Witness ==
    /\ last.op = "request_history"
    /\ last.from = Str("b")
    /\ last.content = Str("a")
    /\ \E i \in 1..QueueCap :
          /\ i + 1 = Len(send[last.sess])
          /\ send[last.sess][i] = SystemFrame("joined", Str("b"), EmptyStr)
          /\ send[last.sess][i + 1].type = "history"
          /\ LET h == send[last.sess][i + 1].body
             IN  /\ Len(h) = 2
                 /\ \A j \in 1..2 : h[j].From = Str("a") /\ h[j].To = Str("b")
                 /\ h[1].Content = Str("x")
                 /\ h[2].Content = Str("y")

InLog(m, log) == \E i \in 1..Len(log) : log[i] = m

(* C16: at every state the history of a and b is the history of b and a    *)
(* for all handles, every stored private message is in the history of its  *)
(* sender with its recipient and in that of its recipient with its sender, *)
(* and the message a handler has just stored is the newest of both.        *)
C16_OneLog ==
    /\ \A a \in Recipients, b \in Recipients :
          getConversationHistory(a, b) = getConversationHistory(b, a)
    /\ \A k \in DOMAIN privateMessages :
          \A i \in 1..Len(privateMessages[k]) :
              LET m == privateMessages[k][i]
              IN  /\ InLog(m, getConversationHistory(m.From, m.To))
                  /\ InLog(m, getConversationHistory(m.To, m.From))
    /\ last.op = "private_message" =>
          \A h \in {getConversationHistory(last.from, last.to),
                    getConversationHistory(last.to, last.from)} :
              /\ h # <<>>
              /\ h[Len(h)].From = last.from
              /\ h[Len(h)].To = last.to
              /\ h[Len(h)].Content = last.content

(* "b" has just answered a message of "a": both are in the one log *)
C16_Witness ==
    /\ last.op = "private_message"
    /\ last.from = Str("b")
    /\ last.to = Str("a")
    /\ LET h == getConversationHistory(Str("a"), Str("b"))
       IN  /\ Len(h) >= 2
           /\ h[Len(h) - 1].From = Str("a")
           /\ h[Len(h)].From = Str("b")
           /\ h = getConversationHistory(Str("b"), Str("a"))

(* C17: the key computed for a pair of handles is the key of the pair the  *)
(* other way round, for all handles (equal ones and ones that hold the     *)
(* separator included).                                                    *)
C17_KeySymmetric ==
    last.op = "key" => last.content = getConversationKey(last.to, last.from)

(* the key of ("b", "a") is "a:b" *)
C17_Witness ==
    /\ last.op = "key"
    /\ last.from = Str("b")
    /\ last.to = Str("a")
    /\ last.content = <<"a", ":", "b">>

(* the places of the private_message frames a step appends to a channel *)
NewPrivate(s) ==
    {i \in (Len(send[s]) + 1)..Len(send'[s]) : send'[s][i].type = "private_message"}

(* C18: when a registered client sends a private_message to a registered   *)
(* client whose channel is open and has room, the recipient's channel      *)
(* gets exactly one new private_message frame, which carries the sender's  *)
(* name and the content sent, and no other channel gets a private_message  *)
(* frame.                                                                  *)
C18_DeliveredOnce ==
    [][(/\ ops' = ops + 1
        /\ last'.op = "private_message"
        /\ Has(clients, last'.from)
        /\ Has(clients, last'.to)
        /\ ~closed[clients[last'.to]]
        /\ Len(send[clients[last'.to]]) < QueueCap) =>
          LET t == clients[last'.to]
          IN  /\ Cardinality(NewPrivate(t)) = 1
              /\ \A i \in NewPrivate(t) :
                    /\ send'[t][i].body.From = last'.from
                    /\ send'[t][i].body.To = last'.to
                    /\ send'[t][i].body.Content = last'.content
              /\ \A u \in Sessions \ {t} : NewPrivate(u) = {}]_vars

(* "a" has sent x to "b": the message and then the unread count are the    *)
(* newest frames of b's channel, and a's channel holds no private message  *)
C18_Witness ==
    /\ last.op = "private_message"
    /\ last.from = Str("a")
    /\ last.to = Str("b")
    /\ Has(clients, Str("a")) /\ Has(clients, Str("b"))
    /\ LET q == send[clients[Str("b")]]
       IN  /\ Len(q) >= 2
           /\ q[Len(q) - 1].type = "private_message"
           /\ q[Len(q) - 1].body.From = Str("a")
           /\ q[Len(q) - 1].body.Content = last.content
           /\ q[Len(q)].type = "unread_count"
           /\ Has(q[Len(q)].body, Str("a"))
           /\ q[Len(q)].body[Str("a")] >= 1
    /\ \A i \in 1..Len(send[last.sess]) : send[last.sess][i].type # "private_message"

----------------------------------------------------------------------------
(* Unread counts *)

Seen(h, c) == Has(lastSeenTimestamps, h) /\ Has(lastSeenTimestamps[h], c)

(* the messages of one log that count as unread for h in chat c *)
UnreadIn(log, h, c) ==
    {i \in 1..Len(log) :
        /\ log[i].From # h
        /\ Seen(h, c) => log[i].Timestamp > lastSeenTimestamps[h][c]}

(* the count over conversation c of h only *)
ReferenceCount(h, c) ==
    Cardinality(UnreadIn(Log(privateMessages, getConversationKey(h, c)), h, c))
        + Cardinality(UnreadIn(Log(groupMessages, c), h, c))

(* C19: the unread count of h for c is the number of messages of the       *)
(* conversation of h and c (the private log of the two, or the group log   *)
(* c) that h did not send and, when h has a LastSeen entry for c, that are *)
(* strictly newer than it; no other conversation contributes.              *)
C19_UnreadIsPerConversation ==
    \A h \in Users, c \in Recipients \cup GroupNames :
        getUnreadCount(Store, h, c) = ReferenceCount(h, c)

(* C20: right after an update_last_seen handler of h for chat c, h has a   *)
(* LastSeen entry for c that is at or after the timestamp of every message *)
(* stored in the conversation, and the unread count of h for c is 0.       *)
C20_UnreadReset ==
    last.op = "update_last_seen" =>
        LET h == last.from
            c == last.to
        IN  /\ Seen(h, c)
            /\ \A log \in {Log(privateMessages, getConversationKey(h, c)),
                           Log(groupMessages, c)} :
                  \A i \in 1..Len(log) : log[i].Timestamp <= lastSeenTimestamps[h][c]
            /\ getUnreadCount(Store, h, c) = 0

(* "a" marks its chat with "b" as seen in the very second a message of     *)
(* "b" was stored in it                                                    *)
C20_Witness ==
    /\ last.op = "update_last_seen"
    /\ last.from = Str("a")
    /\ last.to = Str("b")
    /\ Seen(Str("a"), Str("b"))
    /\ LET log == getConversationHistory(Str("a"), Str("b"))
       IN  \E i \in 1..Len(log) :
              /\ log[i].From = Str("b")
              /\ log[i].Timestamp = lastSeenTimestamps[Str("a")][Str("b")]
              /\ log[i].Timestamp > 0

----------------------------------------------------------------------------
(* Group messages *)

(* C21: a group_message for a name that is not in the group directory      *)
(* leaves the message store as it is (no log is created or extended) and   *)
(* puts a system error frame on the sender's channel.                      *)
C21_UnknownGroupRejected ==
    [][(/\ ops' = ops + 1
        /\ last'.op = "group_message"
        /\ ~Has(groups, last'.to)) =>
          /\ groupMessages' = groupMessages
          /\ privateMessages' = privateMessages
          /\ \E f \in NewFrames(last'.sess) : f.type \in {"system", "error"}]_vars

GroupSent(l) ==
    [Type |-> "group_message", From |-> l.from, To |-> l.to,
     Content |-> l.content, Timestamp |-> now]

(* how often name m is in the member list of g *)
Times(g, m) == Cardinality({i \in 1..Len(g.Members) : g.Members[i] = m})

(* C22: a group_message for a group of the directory is appended to the    *)
(* end of the group's log; every member that is registered and whose       *)
(* channel has room (the sender too, when a member) gets the message as    *)
(* the next frame of its channel; and every member other than the sender   *)
(* that is registered and whose channel still has room after the fan-out   *)
(* gets an unread_count frame after the message.                           *)
C22_GroupDelivery ==
    [][(/\ ops' = ops + 1
        /\ last'.op = "group_message"
        /\ Has(groups, last'.to)) =>
          LET g == groups[last'.to]
              msg == GroupSent(last')
          IN  /\ Has(groupMessages', last'.to)
              /\ groupMessages'[last'.to] = Append(Log(groupMessages, last'.to), msg)
              /\ \A m \in MemberSet(g) :
                    (Has(clients, m) /\ Len(send[clients[m]]) < QueueCap) =>
                        LET t == clients[m]
                        IN  /\ Len(send'[t]) > Len(send[t])
                            /\ send'[t][Len(send[t]) + 1] =
                                  [type |-> "group_message", body |-> msg]
                            /\ (m # last'.from /\ Len(send[t]) + Times(g, m) < QueueCap) =>
                                  /\ Len(send'[t]) > Len(send[t]) + Times(g, m)
                                  /\ send'[t][Len(send'[t])].type = "unread_count"]_vars

(* "a" has sent x to group g of "a" and "b": the message is the newest     *)
(* frame of a's channel, and in b's channel it is followed by the unread   *)
(* count of g                                                              *)
C22_Witness ==
    /\ last.op = "group_message"
    /\ last.from = Str("a")
    /\ Has(groups, last.to)
    /\ groups[last.to].Members = <<Str("a"), Str("b")>>
    /\ Has(clients, Str("a")) /\ Has(clients, Str("b"))
    /\ LET qa == send[clients[Str("a")]]
           qb == send[clients[Str("b")]]
       IN  /\ qa # <<>>
           /\ qa[Len(qa)].type = "group_message"
           /\ qa[Len(qa)].body = groupMessages[last.to][Len(groupMessages[last.to])]
           /\ Len(qb) >= 2
           /\ qb[Len(qb) - 1] = qa[Len(qa)]
           /\ qb[Len(qb)].type = "unread_count"
           /\ Has(qb[Len(qb)].body, last.to)
           /\ qb[Len(qb)].body[last.to] >= 1

(* the group messages a frame carries *)
GroupContent(f) ==
    IF f.type = "group_message" THEN {f.body}
    ELSE IF f.type = "history"
         THEN {f.body[i] : i \in {j \in 1..Len(f.body) : f.body[j].Type = "group_message"}}
         ELSE {}

(* C28: a frame that carries messages of group g (the fan-out of a group   *)
(* message, or the reply to request_history(group, g)) is put only on the  *)
(* channel of a client that is a member of g.                              *)
C28_GroupContentForMembersOnly ==
    [][\A t \in Sessions : \A f \in NewFrames(t) : \A m \in GroupContent(f) :
          /\ Has(groups, m.To)
          /\ contains(groups[m.To].Members, username[t])]_vars

----------------------------------------------------------------------------
(* Frames *)

(* the messages a step appends to a log *)
Appended(old, new, key) ==
    {new[key][i] : i \in (Len(Log(old, key)) + 1)..Len(new[key])}

(* C23: whatever From and Timestamp the client wrote into a frame, every   *)
(* message the frame's handler stores or forwards carries the name of the  *)
(* session that read it and the server's time; and the group directory     *)
(* changes only as that name is entitled to: a created group has it as     *)
(* admin, members are added or removed only when it is the admin, and a    *)
(* leave takes no other name out of the member list.                       *)
C23_NoSpoofing ==
    [][ops' = ops + 1 =>
          LET h == username[last'.sess]
              Genuine(m) == m.From = h /\ m.Timestamp = now
          IN  /\ \A k \in DOMAIN privateMessages' :
                    \A m \in Appended(privateMessages, privateMessages', k) : Genuine(m)
              /\ \A k \in DOMAIN groupMessages' :
                    \A m \in Appended(groupMessages, groupMessages', k) : Genuine(m)
              /\ \A t \in Sessions : \A f \in NewFrames(t) :
                    f.type \in {"private_message", "group_message"} => Genuine(f.body)
              /\ \A n \in DOMAIN groups' :
                    (~Has(groups, n) \/ groups'[n] # groups[n]) =>
                        CASE last'.op = "create_group" -> groups'[n].Admin = h
                          [] last'.op \in {"add_group_member", "remove_group_member"} ->
                                groups[n].Admin = h
                          [] last'.op = "leave_group" ->
                                MemberSet(groups[n]) \ MemberSet(groups'[n]) \subseteq {h}
                          [] OTHER -> FALSE
              /\ \A n \in DOMAIN groups \ DOMAIN groups' :
                    last'.op = "leave_group" /\ MemberSet(groups[n]) \subseteq {h}]_vars

(* "b" sent a private message in which it called itself "a" and gave a     *)
(* time of its own: the message is stored and forwarded as b's, with the   *)
(* server's time                                                           *)
C23_Witness ==
    /\ last.op = "private_message"
    /\ last.from = Str("b")
    /\ last.to = Str("a")
    /\ last.frame.From = Str("a")
    /\ last.frame.Timestamp = 0
    /\ now = 1
    /\ LET log == getConversationHistory(Str("a"), Str("b"))
       IN  /\ log # <<>>
           /\ log[Len(log)].From = Str("b")
           /\ log[Len(log)].Timestamp = 1
           /\ Has(clients, Str("a"))
           /\ \E i \in 1..Len(send[clients[Str("a")]]) :
                 send[clients[Str("a")]][i] =
                     [type |-> "private_message", body |-> log[Len(log)]]

KnownTypes ==
    {"private_message", "group_message", "update_last_seen", "request_history",
     "create_group", "add_group_member", "remove_group_member", "leave_group"}

(* C24: a wire message that does not decode, or one whose type is none of  *)
(* the request types, changes nothing: the registry, the group directory,  *)
(* the message store and the last-seen map are as before, no channel gets  *)
(* a frame or is closed, and the session that sent it is still reading.    *)
C24_BadFrameChangesNothing ==
    [][(ops' = ops + 1 /\ last'.op \notin KnownTypes) =>
          /\ clients' = clients
          /\ groups' = groups
          /\ privateMessages' = privateMessages
          /\ groupMessages' = groupMessages
          /\ lastSeenTimestamps' = lastSeenTimestamps
          /\ send' = send
          /\ closed' = closed
          /\ ~panicked'
          /\ rp'[last'.sess] = "run"
          /\ conn'[last'.sess] = "open"]_vars

(* a registered session sent a message that does not decode after one     *)
(* that was stored                                                         *)
C24_Witness ==
    /\ last.op = "undecodable"
    /\ ops = 2
    /\ Registered(last.sess)
    /\ DOMAIN privateMessages # {}
    /\ rp[last.sess] = "run"

----------------------------------------------------------------------------
(* Session end *)

(* C25: once the read loop of a session of handle h has exited, h is not   *)
(* left in the presence list the others have: every session that is        *)
(* registered under another handle is eventually sent a user_list without  *)
(* h (or is itself no longer registered).                                  *)
C25_ExitRefreshesPresence ==
    \A s \in Sessions, t \in Sessions :
        (/\ rp[s] = "done"
         /\ ~Has(clients, username[s])
         /\ Registered(t)
         /\ username[t] # username[s])
        ~> (\/ ~Registered(t)
            \/ Has(clients, username[s])
            \/ \E i \in 1..Len(send[t]) :
                  /\ send[t][i].type = "user_list"
                  /\ username[s] \notin send[t][i].body)

----------------------------------------------------------------------------
(* Locks *)

(* C26: a step of a task that holds the group directory lock puts no frame *)
(* on any channel and closes none: recipients are taken under the lock and *)
(* the lock is released before the first enqueue.                          *)
C26_NoEnqueueUnderLock ==
    [][\A s \in Sessions :
          (HoldsGroupsMux(s) /\ pc'[s] # pc[s]) =>
              (send' = send /\ closed' = closed)]_vars

----------------------------------------------------------------------------
(* The message store *)

IsPrefix(p, q) == Len(p) <= Len(q) /\ SubSeq(q, 1, Len(p)) = p

Stored(m) == SumOver([k \in DOMAIN m |-> Len(m[k])], DOMAIN m)

(* C27: in every step every conversation log and every group log is a      *)
(* prefix of what it is afterwards (no log disappears, no stored message   *)
(* is changed, moved or removed), and a private_message or group_message   *)
(* handler adds exactly one message to the store, whatever other           *)
(* connections have appended in between; no other step adds one.           *)
C27_AppendOnly ==
    [][/\ \A k \in DOMAIN privateMessages :
             Has(privateMessages', k) /\ IsPrefix(privateMessages[k], privateMessages'[k])
       /\ \A k \in DOMAIN groupMessages :
             Has(groupMessages', k) /\ IsPrefix(groupMessages[k], groupMessages'[k])
       /\ Stored(privateMessages') + Stored(groupMessages') =
             Stored(privateMessages) + Stored(groupMessages)
                + (IF ops' = ops + 1 /\ last'.op \in {"private_message", "group_message"}
                   THEN 1 ELSE 0)]_vars

(* "b" has answered "a": the log of the two holds a's message and then b's *)
C27_Witness ==
    /\ last.op = "private_message"
    /\ last.from = Str("b")
    /\ LET log == getConversationHistory(Str("a"), Str("b"))
       IN  /\ Len(log) = 2
           /\ log[1].From = Str("a")
           /\ log[2].From = Str("b")

----------------------------------------------------------------------------
(* Last seen *)

(* the LastSeen entry of handle h for chat c in map L; NoTime when absent *)
LastSeenOf(L, h, c) == IF Has(L, h) /\ Has(L[h], c) THEN L[h][c] ELSE NoTime

SeenKeys(L) == {<<h, c>> : h \in DOMAIN L, c \in Recipients \cup GroupNames}

(* C29: a step changes the LastSeen entry of handle h for chat c (creates, *)
(* alters or removes it) only if it is the update_last_seen handler of a   *)
(* session of h for c; so one update changes one entry, and no message,    *)
(* group request, history request, bad frame, write or disconnect changes  *)
(* any.                                                                    *)
C29_LastSeenFrame ==
    [][\A k \in SeenKeys(lastSeenTimestamps) \cup SeenKeys(lastSeenTimestamps') :
          LastSeenOf(lastSeenTimestamps', k[1], k[2])
                # LastSeenOf(lastSeenTimestamps, k[1], k[2]) =>
              /\ ops' = ops + 1
              /\ last'.op = "update_last_seen"
              /\ username[last'.sess] = k[1]
              /\ last'.to = k[2]]_vars

(* "b" marks its chat with "a" as seen at second 1; the entry "a" made for *)
(* group "g" at second 0 is as it was                                      *)
C29_Witness ==
    /\ last.op = "update_last_seen"
    /\ last.from = Str("b")
    /\ last.to = Str("a")
    /\ LastSeenOf(lastSeenTimestamps, Str("b"), Str("a")) = 1
    /\ LastSeenOf(lastSeenTimestamps, Str("a"), Str("g")) = 0
    /\ LastSeenOf(lastSeenTimestamps, Str("a"), Str("a")) = NoTime
    /\ LastSeenOf(lastSeenTimestamps, Str("b"), Str("g")) = NoTime

(* C30: once the channel of a session has been closed (it was evicted on a *)
(* full channel or its handle registered again), under fair scheduling of  *)
(* the pumps its writePump eventually finds the channel drained and closed *)
(* and closes the connection, and its readPump then exits.                 *)
C30_ClosedSessionTerminates ==
    \A s \in Sessions :
        closed[s] ~> (wp[s] = "done" /\ conn[s] = "closed" /\ rp[s] = "done")

----------------------------------------------------------------------------
(* Deadlock, eviction and leaks *)

(* C32: the send step of sendToUser removes from the registry at most the  *)
(* client it found: a client registered under the name after the lookup    *)
(* stays registered.                                                        *)
C32_EvictsOnlyFullSession ==
    [][\A s \in Sessions :
          (pc[s].at = "select" /\ pc'[s].at = "counts") =>
              \A h \in DOMAIN clients :
                  clients[h] # pc[s].client =>
                      (Has(clients', h) /\ clients'[h] = clients[h])]_vars

(* C33: no client of the registry has a closed channel. *)
C33_RegisteredChannelsOpen ==
    \A h \in DOMAIN clients : ~closed[clients[h]]

(* the send step of sendToUser has found the client's channel full, closed *)
(* it and taken the client out of the registry; the sender stays registered *)
C33_Witness ==
    /\ ~panicked
    /\ last.op = "private_select"
    /\ last.old # NoSession
    /\ closed[last.old]
    /\ Len(send[last.old]) = QueueCap
    /\ ~Has(clients, last.to)
    /\ Has(clients, last.from)
    /\ ~closed[clients[last.from]]

(* C34: once the readPump of a session has exited, under fair scheduling   *)
(* its writePump exits too (or the process has been aborted by a panic).   *)
C34_WritePumpExitsAfterReadPump ==
    \A s \in Sessions : (rp[s] = "done") ~> (wp[s] = "done" \/ panicked)

(* the positions at which a task calls Lock or RLock of groupsMux, or holds *)
(* it                                                                       *)
AtGroupsMux == {"send", "rlock", "unread", "wlock"}

(* C31: no task waits for a lock that is never released: under fair        *)
(* scheduling a handler that is at groupsMux gets past it (or the process  *)
(* has been aborted by a panic).                                            *)
C31_NoLockHeldForever ==
    \A s \in Sessions :
        (pc[s].at \in AtGroupsMux) ~> (pc[s].at \notin AtGroupsMux \/ panicked)

----------------------------------------------------------------------------
(* Concurrent senders *)

(* the positions of m in log l *)
LoggedAt(l, m) == {i \in 1..Len(l) : l[i] = m}

(* C37: two different messages of one group that are both in a client's    *)
(* channel are there in the order in which the group's log holds them:     *)
(* when m1 is queued before m2, m1 is stored before m2.                     *)
C37_DeliveryOrderIsLogOrder ==
    \A s \in Sessions : \A i \in 1..Len(send[s]) : \A j \in 1..Len(send[s]) :
        (/\ i < j
         /\ send[s][i].type = "group_message"
         /\ send[s][j].type = "group_message"
         /\ send[s][i].body # send[s][j].body
         /\ send[s][i].body.To = send[s][j].body.To)
        => LET l == Log(groupMessages, send[s][i].body.To)
           IN  \E p \in LoggedAt(l, send[s][i].body) :
                  \E q \in LoggedAt(l, send[s][j].body) : p < q

(* C38: in every group log the timestamps never decrease from one message  *)
(* to the next.                                                             *)
C38_TimestampsNonDecreasing ==
    \A g \in DOMAIN groupMessages :
        \A i \in 1..Len(groupMessages[g]) : \A j \in 1..Len(groupMessages[g]) :
            i < j => groupMessages[g][i].Timestamp <= groupMessages[g][j].Timestamp

----------------------------------------------------------------------------
(* The conversation key and the private logs *)

(* C35: the key computed for a pair of handles is the key of no other      *)
(* pair: whenever two handles c and d have the same key, they are the two  *)
(* handles of the pair, in one order or the other.                          *)
C35_KeyInjective ==
    last.op = "key" =>
        \A c \in Handles : \A d \in Handles :
            getConversationKey(c, d) = last.content => {c, d} = {last.from, last.to}

(* the private messages a frame carries *)
PrivateContent(f) ==
    IF f.type = "private_message" THEN {f.body}
    ELSE IF f.type = "history"
         THEN {f.body[i] : i \in {j \in 1..Len(f.body) : f.body[j].Type = "private_message"}}
         ELSE {}

(* C36: every private message a client gets, as a delivery or in the reply *)
(* to request_history(private, x), has the client as sender or recipient.  *)
C36_PrivateHistoryConfidential ==
    \A t \in Sessions : \A i \in 1..Len(send[t]) : \A m \in PrivateContent(send[t][i]) :
        m.From = username[t] \/ m.To = username[t]

----------------------------------------------------------------------------
(* Group membership and group history *)

(* C39: a group_message for a group of the directory is stored, or put on  *)
(* a channel, only when its sender is a member of the group.                *)
C39_OnlyMembersPost ==
    [][(/\ ops' = ops + 1
        /\ last'.op = "group_message"
        /\ Has(groups, last'.to)
        /\ \/ groupMessages' # groupMessages
           \/ \E t \in Sessions : \E f \in NewFrames(t) : f.type = "group_message")
       => contains(groups[last'.to].Members, last'.from)]_vars

(* C40: directly after a create_group the log of the group is empty and no *)
(* member has unread messages in it.                                        *)
C40_NewGroupHasNoHistory ==
    [][(/\ ops' = ops + 1
        /\ last'.op = "create_group"
        /\ Has(groups', last'.to))
       => /\ Log(groupMessages', last'.to) = <<>>
          /\ \A i \in 1..Len(groups'[last'.to].Members) :
                getUnreadCount(Store', groups'[last'.to].Members[i], last'.to) = 0]_vars

====
